---- MODULE Spec2Model ----
(***************************************************************************)
(* ImageEnabledFirestoreVectorStore.add_images                             *)
(* (samples/multimodal/retrievers/firestore/                               *)
(*  image_enabled_firestore_vectorstore.py).                               *)
(*                                                                         *)
(* The state is the Firestore collection (docs), the arguments and the     *)
(* local variables of the running call of add_images, and the position of  *)
(* that call (pc).  The embedding service and the Firestore client are     *)
(* external: embed_image either returns the vector of the image or raises, *)
(* collection.document(None) returns a handle with a new unique id,        *)
(* batch.set(doc, data, merge=True) stages a merge write and               *)
(* batch.commit() applies the staged writes atomically, in order, or       *)
(* raises and applies none.                                                *)
(***************************************************************************)
EXTENDS Naturals, Sequences, FiniteSets

\* Longest list passed as image_paths, metadatas or ids.
MaxLen == 2
\* Number of calls of add_images followed in one behaviour of SpecCalls.
MaxCalls == 2

VARIABLES
    docs,         \* the collection: document id -> document
    pc,           \* position of the call: "idle", "line45", "line65", "line67",
                  \* "returned", "raised"
    image_paths,  \* argument: the items of the iterable, in order
    one_shot,     \* argument: TRUE when image_paths can be traversed only once
    consumed,     \* items already taken from a one-shot image_paths
    metadatas,    \* argument: Optional[List[dict]]
    ids,          \* argument: Optional[List[str]]
    images_len,   \* local, line 45
    i,            \* the loop's enumerate index (iterations completed)
    image_embs,   \* local, line 66
    _ids,         \* local, line 62
    db_batch,     \* the WriteBatch object of line 63: its staged writes
    result,       \* the value returned at line 80
    error,        \* the exception that ended the call ("" when none)
    calls,        \* calls of add_images started so far
    auto_seq,     \* ids generated so far by collection.document(None)
    events,       \* history: the external calls of the running call, in order
    docs_before   \* history: the collection when the running call started

vars == <<docs, pc, image_paths, one_shot, consumed, metadatas, ids, images_len,
          i, image_embs, _ids, db_batch, result, error, calls, auto_seq, events,
          docs_before>>

----------------------------------------------------------------------------
(* Values *)

Images == {"imgA", "imgB"}

UserIds == {<<"user", 1>>, <<"user", 2>>}

AutoId(k) == <<"auto", k>>

\* Optional[List[...]]: None, or a list.
None == [some |-> FALSE, list |-> <<>>]

Some(l) == [some |-> TRUE, list |-> l]

\* Python truth of an Optional[List]: None and the empty list are both false.
Truthy(x) == x.some /\ Len(x.list) > 0

\* A dict is the set of its <<key, value>> items.
Keys(d) == {p[1] : p \in d}

MetaDicts == {{}, {<<"a", 1>>}}

\* A Firestore field value: null, a map, or the field missing from the document.
Null == [t |-> "null", m |-> {}]

Map(d) == [t |-> "map", m |-> d]

Missing == [t |-> "missing", m |-> {}]

\* Vector(image_embs), line 73
Vector(embs) == [vec |-> embs]

\* self.embedding_service.embed_image(image_path), line 66: the vector the
\* service computes for the image, an uninterpreted value per image.
embed_image(image_path) == <<"embedding of", image_path>>

SeqsUpTo(S, n) == UNION {[1..k -> S] : k \in 0..n}

----------------------------------------------------------------------------
(* Firestore client *)

\* Mutant: one batch kept by the client and handed to every call.
ClientBatch_Shared == db_batch

\* self.client.batch(), line 63: a new WriteBatch with nothing staged.
ClientBatch == <<>>

\* set(..., merge=True) of one field: the update mask holds the leaf paths of
\* the data, so a non-empty dict merges key by key into an existing map, and
\* None, an empty dict or any other value replaces the field.
MergeField(old, new) ==
    IF new.t = "map" /\ new.m # {} /\ old.t = "map"
    THEN Map(new.m \cup {p \in old.m : p[1] \notin Keys(new.m)})
    ELSE new

\* Mutant: merge=True left out, the document is replaced by the data.
ApplyWrite_NoMerge(d, w) ==
    LET new == [content |-> w.data.content,
                embedding |-> w.data.embedding,
                metadata |-> w.data.metadata,
                extra |-> "none"]
    IN [x \in DOMAIN d \cup {w.doc} |-> IF x = w.doc THEN new ELSE d[x]]

\* One staged write applied to the collection. Fields the data does not name
\* (extra) keep their value; a missing document is created.
ApplyWrite(d, w) ==
    LET old == IF w.doc \in DOMAIN d
               THEN d[w.doc]
               ELSE [content |-> "", embedding |-> Vector(<<"none">>),
                     metadata |-> Missing, extra |-> "none"]
        new == [content |-> w.data.content,
                embedding |-> w.data.embedding,
                metadata |-> MergeField(old.metadata, w.data.metadata),
                extra |-> old.extra]
    IN [x \in DOMAIN d \cup {w.doc} |-> IF x = w.doc THEN new ELSE d[x]]

\* batch.commit(): the staged writes applied in the order they were staged.
RECURSIVE ApplyBatch(_, _)
ApplyBatch(d, batch) ==
    IF batch = <<>> THEN d
    ELSE ApplyBatch(ApplyWrite(d, Head(batch)), Tail(batch))

----------------------------------------------------------------------------
(* add_images *)

\* What a traversal of image_paths yields: a list yields all its items every
\* time, a one-shot iterator only the items not yet taken.
Remaining == IF one_shot
             THEN SubSeq(image_paths, consumed + 1, Len(image_paths))
             ELSE image_paths

\* Mutant: the test for an empty input never holds.
no_images_Negative(n) == n < 0

\* line 49
no_images(n) == n = 0

\* Mutant: ids longer than the images are accepted.
ids_len_match_AtLeast(n) == ~Truthy(ids) \/ Len(ids.list) >= n

\* line 46
ids_len_match(n) == ~Truthy(ids) \/ Len(ids.list) = n

\* Mutant: metadatas longer than the images are accepted.
metadatas_len_match_AtLeast(n) == ~Truthy(metadatas) \/ Len(metadatas.list) >= n

\* line 47
metadatas_len_match(n) == ~Truthy(metadatas) \/ Len(metadatas.list) = n

\* line 67: doc_id = ids[i] if ids else None
UseGivenId == Truthy(ids)

\* Mutant: one generated id used for every document.
DocId_OneHandle(k) == IF UseGivenId THEN ids.list[k] ELSE AutoId(1)

\* line 68-69: the id of the handle collection.document(doc_id)
DocId(k) == IF UseGivenId THEN ids.list[k] ELSE AutoId(auto_seq + 1)

\* Mutant: every document gets the first metadata.
Data_FirstMetadata(k, embs) ==
    [content |-> "",
     embedding |-> Vector(embs),
     metadata |-> IF Truthy(metadatas) THEN Map(metadatas.list[1]) ELSE Null]

\* lines 71-75
Data(k, embs) ==
    [content |-> "",
     embedding |-> Vector(embs),
     metadata |-> IF Truthy(metadatas) THEN Map(metadatas.list[k]) ELSE Null]

\* The call: add_images(image_paths, metadatas, ids) is entered.
Call(Inputs, limit) ==
    /\ pc \in {"idle", "returned", "raised"}
    /\ calls < limit
    /\ \E in \in Inputs :
         /\ image_paths' = in.image_paths
         /\ one_shot' = in.one_shot
         /\ metadatas' = in.metadatas
         /\ ids' = in.ids
    /\ consumed' = 0
    /\ images_len' = 0
    /\ i' = 0
    /\ image_embs' = <<"none">>
    /\ _ids' = <<>>
    /\ result' = <<>>
    /\ error' = ""
    /\ calls' = calls + 1
    /\ events' = <<>>
    /\ docs_before' = docs
    /\ pc' = "line45"
    /\ UNCHANGED <<docs, db_batch, auto_seq>>

\* line 45: len(list(image_paths)) takes every item the iterable still has.
CountImages == Len(Remaining)

Taken == IF one_shot THEN Len(image_paths) ELSE consumed

Raise(msg) ==
    /\ pc' = "raised"
    /\ error' = msg
    /\ consumed' = Taken
    /\ images_len' = CountImages
    /\ UNCHANGED <<docs, image_paths, one_shot, metadatas, ids, i, image_embs,
                   _ids, db_batch, result, calls, auto_seq, events, docs_before>>

\* lines 45-50
RaiseNoImages ==
    /\ pc = "line45"
    /\ no_images(CountImages)
    /\ Raise("ValueError: No images provided")

\* lines 45-55
RaiseMetadatas ==
    /\ pc = "line45"
    /\ ~no_images(CountImages)
    /\ ~metadatas_len_match(CountImages)
    /\ Raise("ValueError: length of metadatas")

\* lines 45-60
RaiseIds ==
    /\ pc = "line45"
    /\ ~no_images(CountImages)
    /\ metadatas_len_match(CountImages)
    /\ ~ids_len_match(CountImages)
    /\ Raise("ValueError: length of ids")

\* lines 45-63: the arguments pass validation; _ids and the batch are created.
Validated ==
    /\ pc = "line45"
    /\ ~no_images(CountImages)
    /\ metadatas_len_match(CountImages)
    /\ ids_len_match(CountImages)
    /\ images_len' = CountImages
    /\ consumed' = Taken
    /\ _ids' = <<>>
    /\ db_batch' = ClientBatch
    /\ i' = 0
    /\ pc' = "line65"
    /\ UNCHANGED <<docs, image_paths, one_shot, metadatas, ids, image_embs,
                   result, error, calls, auto_seq, events, docs_before>>

\* Mutant: the loop stops one item early.
LoopHasNext_SkipLast == i + 1 < Len(Remaining)

\* line 65: the loop has another item when the traversal yields one.
LoopHasNext == i < Len(Remaining)

\* lines 65-66: the next item is taken and embed_image returns its vector.
EmbedOk ==
    /\ pc = "line65"
    /\ LoopHasNext
    /\ image_embs' = embed_image(Remaining[i + 1])
    /\ events' = Append(events, [op |-> "embed", k |-> i + 1,
                                 image |-> Remaining[i + 1]])
    /\ pc' = "line67"
    /\ UNCHANGED <<docs, image_paths, one_shot, consumed, metadatas, ids,
                   images_len, i, _ids, db_batch, result, error, calls,
                   auto_seq, docs_before>>

\* lines 65-66: embed_image raises; the exception leaves add_images.
EmbedFail ==
    /\ pc = "line65"
    /\ LoopHasNext
    /\ events' = Append(events, [op |-> "embed", k |-> i + 1,
                                 image |-> Remaining[i + 1]])
    /\ pc' = "raised"
    /\ error' = "EmbeddingError"
    /\ UNCHANGED <<docs, image_paths, one_shot, consumed, metadatas, ids,
                   images_len, i, image_embs, _ids, db_batch, result, calls,
                   auto_seq, docs_before>>

\* lines 67-77: the handle, its id appended to _ids, the data, the staged write.
Stage ==
    /\ pc = "line67"
    /\ _ids' = Append(_ids, DocId(i + 1))
    /\ auto_seq' = IF UseGivenId THEN auto_seq ELSE auto_seq + 1
    /\ db_batch' = Append(db_batch, [doc |-> DocId(i + 1),
                                     data |-> Data(i + 1, image_embs),
                                     call |-> calls])
    /\ events' = Append(events, [op |-> "set", k |-> i + 1,
                                 image |-> Remaining[i + 1]])
    /\ i' = i + 1
    /\ pc' = "line65"
    /\ UNCHANGED <<docs, image_paths, one_shot, consumed, metadatas, ids,
                   images_len, image_embs, result, error, calls, docs_before>>

\* Mutant: the commit sits inside the loop, one commit per staged write.
CommitOk_InLoop ==
    /\ pc = "line65"
    /\ db_batch # <<>> \/ ~LoopHasNext
    /\ docs' = ApplyBatch(docs, db_batch)
    /\ db_batch' = <<>>
    /\ events' = Append(events, [op |-> "commit", k |-> Len(db_batch),
                                 image |-> "none"])
    /\ IF LoopHasNext
       THEN pc' = pc /\ result' = result
       ELSE pc' = "returned" /\ result' = _ids
    /\ UNCHANGED <<image_paths, one_shot, consumed, metadatas, ids, images_len,
                   i, image_embs, _ids, error, calls, auto_seq, docs_before>>

\* lines 79-80: the loop is over, the batch commits and _ids is returned.
CommitOk ==
    /\ pc = "line65"
    /\ ~LoopHasNext
    /\ docs' = ApplyBatch(docs, db_batch)
    /\ events' = Append(events, [op |-> "commit", k |-> Len(db_batch),
                                 image |-> "none"])
    /\ result' = _ids
    /\ pc' = "returned"
    /\ UNCHANGED <<image_paths, one_shot, consumed, metadatas, ids, images_len,
                   i, image_embs, _ids, db_batch, error, calls, auto_seq,
                   docs_before>>

\* line 79: commit raises; no staged write is applied.
CommitFail ==
    /\ pc = "line65"
    /\ ~LoopHasNext
    /\ events' = Append(events, [op |-> "commit", k |-> Len(db_batch),
                                 image |-> "none"])
    /\ pc' = "raised"
    /\ error' = "CommitError"
    /\ UNCHANGED <<docs, image_paths, one_shot, consumed, metadatas, ids,
                   images_len, i, image_embs, _ids, db_batch, result, calls,
                   auto_seq, docs_before>>

----------------------------------------------------------------------------
(* Specifications *)

OptLists(S) == {None} \cup {Some(l) : l \in SeqsUpTo(S, MaxLen)}

\* Every call with lists of up to MaxLen items.
AllInputs ==
    [image_paths : SeqsUpTo(Images, MaxLen),
     one_shot : BOOLEAN,
     metadatas : OptLists(MetaDicts),
     ids : OptLists(UserIds)]

\* Calls with at most one dict and one id, for sequences of calls.
FewInputs ==
    [image_paths : SeqsUpTo(Images, MaxLen),
     one_shot : BOOLEAN,
     metadatas : {None, Some(<<{}>>)},
     ids : {None, Some(<<>>), Some(<<<<"user", 1>>>>)}]

\* A document written by something else than add_images.
OldDoc(md) ==
    [content |-> "old text", embedding |-> Vector(<<"old">>), metadata |-> md,
     extra |-> "kept"]

EmptyCollection == [x \in {} |-> OldDoc(Null)]

InitDocs ==
    {EmptyCollection}
    \cup {[x \in {<<"user", 1>>} |-> OldDoc(md)] :
            md \in {Null, Map({<<"a", 2>>, <<"b", 2>>})}}

InitWith(D) ==
    /\ docs \in D
    /\ pc = "idle"
    /\ image_paths = <<>>
    /\ one_shot = FALSE
    /\ consumed = 0
    /\ metadatas = None
    /\ ids = None
    /\ images_len = 0
    /\ i = 0
    /\ image_embs = <<"none">>
    /\ _ids = <<>>
    /\ db_batch = <<>>
    /\ result = <<>>
    /\ error = ""
    /\ calls = 0
    /\ auto_seq = 0
    /\ events = <<>>
    /\ docs_before = docs

Init == InitWith(InitDocs)

Steps ==
    \/ RaiseNoImages
    \/ RaiseMetadatas
    \/ RaiseIds
    \/ Validated
    \/ EmbedOk
    \/ EmbedFail
    \/ Stage
    \/ CommitOk
    \/ CommitFail

\* One call of add_images, with any arguments, on any initial collection.
Next == Call(AllInputs, 1) \/ Steps

Spec == Init /\ [][Next]_vars

InitCalls == InitWith({EmptyCollection})

\* Up to MaxCalls calls one after the other, whatever the end of each.
NextCalls == Call(FewInputs, MaxCalls) \/ Steps

SpecCalls == InitCalls /\ [][NextCalls]_vars

----------------------------------------------------------------------------
(* Properties *)

\* The number of images the caller passes.
NumImages == Len(image_paths)

ValueErrors == {"ValueError: No images provided",
                "ValueError: length of metadatas",
                "ValueError: length of ids"}

\* The call is past its validation (lines 45-60).
Decided == pc \notin {"idle", "line45"}

MetadatasMismatch == Truthy(metadatas) /\ Len(metadatas.list) # NumImages

IdsMismatch == Truthy(ids) /\ Len(ids.list) # NumImages

\* The running call has made no embedding call, staged no write, issued no
\* commit, and the collection is as it was when the call started.
NothingDone ==
    /\ events = <<>>
    /\ docs = docs_before
    /\ \A j \in 1..Len(db_batch) : db_batch[j].call # calls

Range(f) == {f[j] : j \in DOMAIN f}

EventsOf(op) == {j \in 1..Len(events) : events[j].op = op}

\* The id at position k of _ids is written by no other position.
WrittenOnce(k) == \A j \in 1..Len(_ids) : _ids[j] = _ids[k] => j = k

\* The metadata field before the call (Missing when there was no document).
MetadataBefore(d) ==
    IF d \in DOMAIN docs_before THEN docs_before[d].metadata ELSE Missing

\* A dict merged into the previous value of a field: its items, and the items
\* of a previous map under other keys, unless the dict is empty.
MergedInto(old, m) ==
    IF m = {} \/ old.t # "map"
    THEN Map(m)
    ELSE Map(m \cup {p \in old.m : \A q \in m : q[1] # p[1]})

\* C1: a call with a list of n >= 1 images, no metadatas and no ids that
\* returns, returns n ids, and the k-th id is a document of the collection
\* holding the write of the k-th image.
C1_ReturnedIdsDesignateDocuments ==
    (pc = "returned" /\ ~one_shot /\ ~metadatas.some /\ ~ids.some) =>
        /\ Len(result) = NumImages
        /\ \A k \in 1..NumImages :
             /\ result[k] \in DOMAIN docs
             /\ docs[result[k]].content = ""
             /\ docs[result[k]].embedding = Vector(embed_image(image_paths[k]))

C1_Witness ==
    /\ pc = "returned" /\ ~one_shot /\ ~metadatas.some /\ ~ids.some
    /\ NumImages = 2
    /\ image_paths[1] # image_paths[2]
    /\ Len(result) = 2

\* The premise of C2: a list of n >= 1 images with n ids and n metadatas, and
\* the call returned.
C2_Case ==
    /\ pc = "returned" /\ ~one_shot /\ NumImages >= 1
    /\ ids.some /\ Len(ids.list) = NumImages
    /\ metadatas.some /\ Len(metadatas.list) = NumImages

C3_MetadatasMismatchRejected ==
    (Decided /\ MetadatasMismatch) =>
        /\ pc = "raised"
        /\ error \in ValueErrors
        /\ NothingDone

C3_Witness ==
    /\ pc = "raised"
    /\ error = "ValueError: length of metadatas"
    /\ NumImages = 1
    /\ Len(metadatas.list) = 2
    /\ docs # EmptyCollection

\* C4: a call whose ids is non-empty and of another length than the images
\* ends in a ValueError with nothing done; an empty ids list is not rejected,
\* and the ids the call returns are generated ones.
C4_IdsMismatchRejected ==
    /\ (Decided /\ IdsMismatch) =>
          /\ pc = "raised"
          /\ error \in ValueErrors
          /\ NothingDone
    /\ (Decided /\ ids = Some(<<>>) /\ NumImages >= 1 /\ ~MetadatasMismatch) =>
          /\ error \notin ValueErrors
          /\ (pc = "returned" /\ ~one_shot) =>
                /\ Len(result) = NumImages
                /\ \A k \in 1..NumImages : result[k][1] = "auto"

C4_Witness ==
    /\ pc = "raised"
    /\ error = "ValueError: length of ids"
    /\ NumImages = 1
    /\ Len(ids.list) = 2

\* C5: a call with zero images ends in a ValueError whatever metadatas and ids
\* are, with no embedding call, no commit and the collection unchanged.
C5_NoImagesRejected ==
    (Decided /\ NumImages = 0) =>
        /\ pc = "raised"
        /\ error = "ValueError: No images provided"
        /\ NothingDone

C5_Witness ==
    /\ pc = "raised"
    /\ NumImages = 0
    /\ Truthy(metadatas)
    /\ Truthy(ids)
    /\ error = "ValueError: No images provided"

\* C6: a call with any iterable of n >= 1 images, one that can be traversed
\* only once included, that returns has made n embedding calls, staged n
\* writes and returns n ids.
C6_OneWritePerImage ==
    (pc = "returned" /\ NumImages >= 1) =>
        /\ Cardinality(EventsOf("embed")) = NumImages
        /\ Cardinality(EventsOf("set")) = NumImages
        /\ Len(result) = NumImages

\* The external calls of a successful call with a list of n images, in order:
\* the embedding of image 1, the staging of its write, ..., the embedding of
\* image n, the staging of its write, the commit of n writes.
ExpectedEvent(j) ==
    IF j = 2 * NumImages + 1
    THEN [op |-> "commit", k |-> NumImages, image |-> "none"]
    ELSE IF j % 2 = 1
         THEN [op |-> "embed", k |-> (j + 1) \div 2,
               image |-> image_paths[(j + 1) \div 2]]
         ELSE [op |-> "set", k |-> j \div 2, image |-> image_paths[j \div 2]]

\* C7: in a call with a list of n images the external calls are, in order,
\* embedding and staging for image 1, ..., for image n, then one commit; the
\* collection is as before the call until the commit has succeeded and holds
\* all n writes after it.
C7_EmbedStageThenOneCommit ==
    (~one_shot /\ pc # "idle") =>
        /\ Len(events) <= 2 * NumImages + 1
        /\ \A j \in 1..Len(events) : events[j] = ExpectedEvent(j)
        /\ pc # "returned" => docs = docs_before
        /\ pc = "returned" =>
             /\ Len(events) = 2 * NumImages + 1
             /\ Len(_ids) = NumImages
             /\ \A k \in 1..NumImages :
                  /\ _ids[k] \in DOMAIN docs
                  /\ docs[_ids[k]].content = ""
                  /\ (\A j \in (k + 1)..NumImages : _ids[j] # _ids[k]) =>
                       docs[_ids[k]].embedding =
                           Vector(embed_image(image_paths[k]))

C7_Witness ==
    /\ pc = "returned" /\ ~one_shot
    /\ NumImages = 2
    /\ Len(events) = 5
    /\ events[5].op = "commit"
    /\ docs # docs_before

\* The fields of C8 other than metadata, for the document written at
\* position k: the field add_images does not name keeps its value, content
\* is empty and embedding is the vector of image k.
C8_OtherFields(k) ==
    /\ _ids[k] \in DOMAIN docs
    /\ docs[_ids[k]].extra = docs_before[_ids[k]].extra
    /\ docs[_ids[k]].content = ""
    /\ docs[_ids[k]].embedding = Vector(embed_image(image_paths[k]))

C9_NewDistinctDocuments ==
    (pc = "returned" /\ ~one_shot /\ ~Truthy(ids)) =>
        /\ Len(result) = NumImages
        /\ \A j, k \in 1..Len(result) : result[j] = result[k] => j = k
        /\ \A k \in 1..Len(result) : result[k] \notin DOMAIN docs_before
        /\ Cardinality(DOMAIN docs) = Cardinality(DOMAIN docs_before) + NumImages
        /\ \A k \in 1..Len(result) :
             /\ result[k] \in DOMAIN docs
             /\ docs[result[k]].content = ""
             /\ NumImages = Len(result) =>
                  docs[result[k]].embedding = Vector(embed_image(image_paths[k]))

C9_Witness ==
    /\ pc = "returned" /\ ~one_shot /\ ~ids.some
    /\ calls = 2
    /\ NumImages = 2
    /\ image_paths[1] # image_paths[2]
    /\ \E k \in 1..auto_seq : AutoId(k) \in DOMAIN docs_before
    /\ Cardinality(DOMAIN docs) = Cardinality(DOMAIN docs_before) + 2

\* C10: when the embedding of the k-th image raises, the call ends with that
\* error, the embedding of image k is its last external call, k-1 writes are
\* staged and the collection is as before the call; a call that returns has
\* committed only writes it staged itself, and changed only documents it
\* names in its result.
C10_FailedCallWritesNothing ==
    /\ (pc = "raised" /\ error = "EmbeddingError") =>
          /\ docs = docs_before
          /\ Len(events) = 2 * i + 1
          /\ events[Len(events)].op = "embed"
          /\ events[Len(events)].k = i + 1
          /\ EventsOf("commit") = {}
          /\ Len(db_batch) = i
          /\ \A j \in 1..Len(db_batch) : db_batch[j].call = calls
    /\ pc = "returned" =>
          /\ \A j \in 1..Len(db_batch) : db_batch[j].call = calls
          /\ \A d \in DOMAIN docs :
               (d \notin DOMAIN docs_before \/ docs[d] # docs_before[d]) =>
                   d \in Range(result)

C10_Witness ==
    /\ pc = "returned"
    /\ calls = 2
    /\ Len(result) >= 1
    /\ auto_seq >= 1
    /\ AutoId(1) \notin DOMAIN docs

====
